---- MODULE Spec2Model ----
(***************************************************************************)
(* Model of src/Earth.py: EarthDataAnalyzer (profile lookup, the column    *)
(* generators of generate_earth_data, the historical-event overlay) and    *)
(* the type selection of main().                                           *)
(*                                                                         *)
(* Real numbers are fixed-point integers in units of 1/Fix (four decimal   *)
(* digits); products are rounded down to that unit.  Every constant of the *)
(* source is a multiple of 1/Fix, so sums and comparisons are exact.       *)
(*                                                                         *)
(* A column is a function from the record index 0..n-1 to a value, as the  *)
(* lists of the source are.  The random draws of one generator call are a  *)
(* function from the record index to a draw; the actions feed each call a  *)
(* sequence that repeats one draw, chosen independently for every call, so *)
(* that every record sees every combination of its own draws.              *)
(***************************************************************************)
EXTENDS Integers, Sequences, FiniteSets, TLC

VARIABLES
    pc,             \* the next step of the run
    input_line,     \* main: the line input() returned
    choix,          \* main: <<int(input_line)>>, <<>> while unbound
    selected_type,  \* main: the selected type
    data_type,      \* self.data_type
    config,         \* self.config
    data,           \* generate_earth_data: the dict of columns
    smooth_window,  \* _simulate_smoothed_data: start_idx, end_idx of each i
    df,             \* generate_earth_data: the frame, row by row
    visited         \* _add_climate_events: the indices df.iterrows() has yielded

vars == <<pc, input_line, choix, selected_type, data_type, config, data,
          smooth_window, df, visited>>

-----------------------------------------------------------------------------
(* Fixed-point arithmetic *)

Fix == 100 * 100

\* a * b / c rounded down, without forming a * b (c > 0, b >= 0)
MulDiv(a, b, c) == (a \div c) * b + ((a % c) * b) \div c

MulFix(a, b) == MulDiv(a, b, Fix)

Min(a, b) == IF a <= b THEN a ELSE b

Max(a, b) == IF a >= b THEN a ELSE b

\* sin(2*pi*k/10) and sin(2*pi*k/12) in units of 1/Fix
SinTenths == <<0, 5878, 9511, 9511, 5878, 0, -5878, -9511, -9511, -5878>>

SinTwelfths == <<0, 5000, 8660, 10000, 8660, 5000, 0, -5000, -8660, -10000, -8660, -5000>>

\* np.sin(2 * np.pi * num / den) for the periods the source uses
Sin2Pi(num, den) ==
    CASE den = 1 -> 0
      [] den = 10 -> SinTenths[(num % 10) + 1]
      [] den = 12 -> SinTwelfths[(num % 12) + 1]
      [] den = Fix /\ num % (Fix \div 4) = 0 ->
            <<0, Fix, 0, -Fix>>[((num \div (Fix \div 4)) % 4) + 1]

-----------------------------------------------------------------------------
(* Bounds of the model *)

\* the uniform draw takes the values 0/UGrid .. (UGrid-1)/UGrid
UGrid == 4

\* a normal draw is 0 or NoiseZ standard deviations away from the mean
NoiseZ == 2

NormalDraws == {0, NoiseZ}

UniformDraws == 0 .. (UGrid - 1)

-----------------------------------------------------------------------------
(* EarthDataAnalyzer.__init__ and _get_earth_config *)

start_year == 1850

end_year == 2025

earth_data_types ==
    <<"temperature", "co2", "sea_level", "precipitation",
      "glaciers", "biodiversity", "air_quality", "ocean_ph">>

SupportedKeys == {earth_data_types[k] : k \in 1 .. Len(earth_data_types)}

\* keys an analyzer is constructed with: the supported ones, the literal
\* "default" entry of the table and a key the table does not hold
DataTypeKeys == SupportedKeys \cup {"default", "ozone"}

Profile(b, c, a, t, d) ==
    [base_value |-> b, cycle_years |-> c, amplitude |-> a, trend |-> t,
     description |-> d]

configs ==
    [k \in SupportedKeys \cup {"default"} |->
        CASE k = "temperature"   -> Profile(140000, 1, 150000, "croissante", "Temperature moyenne globale")
          [] k = "co2"           -> Profile(2800000, 1, 100000, "croissante", "Concentration de CO2 atmospherique")
          [] k = "sea_level"     -> Profile(0, 1, 50000, "croissante", "Elevation du niveau de la mer")
          [] k = "precipitation" -> Profile(10000000, 1, 3000000, "variable", "Precipitations annuelles")
          [] k = "glaciers"      -> Profile(1000000, 10, 300000, "decroissante", "Masse des glaciers")
          [] k = "biodiversity"  -> Profile(1000000, 10, 200000, "decroissante", "Diversite biologique")
          [] k = "air_quality"   -> Profile(500000, 1, 300000, "variable", "Qualite de l'air")
          [] k = "ocean_ph"      -> Profile(81000, 10, 3000, "decroissante", "Acidification des oceans")
          [] k = "default"       -> Profile(1000000, 1, 200000, "stable", "Donnees terrestres generiques")]

\* faulty variant: a miss falls back to the first entry of the table
GetEarthConfigFirstEntry(key) ==
    IF key \in DOMAIN configs THEN configs[key] ELSE configs["temperature"]

\* configs.get(self.data_type, configs["default"])
GetEarthConfig(key) ==
    IF key \in DOMAIN configs THEN configs[key] ELSE configs["default"]

-----------------------------------------------------------------------------
(* pd.date_range(start, end, freq='Y'): one date per year, at the year end *)

\* faulty variant: a range that leaves out the end year
NumDatesExclusive == end_year - start_year

NumDates == end_year - start_year + 1

Idx == 0 .. (NumDates - 1)

DateYear(i) == start_year + i

DateMonth(i) == 12

-----------------------------------------------------------------------------
(* The column generators.  cfg is self.config, dt is self.data_type.       *)

\* lines 153-158: the trend adjustment of the cycle
TrendFactor(cfg, year) ==
    IF cfg.trend = "croissante" THEN Fix + (year - 1850)
    ELSE IF cfg.trend = "decroissante" THEN Fix - (year - 1850)
    ELSE Fix

\* amplitude * 0.05, the standard deviation of the natural noise
NoiseSigma(cfg) == MulDiv(cfg.amplitude, 5, 100)

\* _simulate_earth_cycle; noise[i] is the normal draw of record i
EarthCycle(cfg, noise) ==
    [i \in Idx |->
        LET year == DateYear(i)
            annual_cycle == Sin2Pi(year - start_year, cfg.cycle_years)
            value == MulFix(cfg.base_value, TrendFactor(cfg, year))
                     + MulFix(cfg.amplitude, annual_cycle)
        IN  value + noise[i]]

\* faulty variant: the phase within a cycle of four years
SeasonalPhaseOfFour(year) == (((year - start_year) % 4) * Fix) \div 4

\* (year - self.start_year) % 1.0
SeasonalPhase(year) == ((year - start_year) * Fix) % Fix

\* _simulate_seasonal_minima
SeasonalMinima(dt) ==
    [i \in Idx |->
        LET seasonal_phase == SeasonalPhase(DateYear(i))
        IN  IF dt = "temperature"
            THEN IF seasonal_phase < 2500 \/ seasonal_phase > 7500 THEN 7000 ELSE Fix
            ELSE 8000 + MulFix(2000, Sin2Pi(seasonal_phase, Fix))]

\* _simulate_seasonal_maxima
SeasonalMaxima(dt) ==
    [i \in Idx |->
        LET seasonal_phase == SeasonalPhase(DateYear(i))
        IN  IF dt = "temperature"
            THEN IF 2500 <= seasonal_phase /\ seasonal_phase <= 7500 THEN Fix ELSE 8000
            ELSE Fix + MulFix(2000, Sin2Pi(seasonal_phase, Fix))]

\* _simulate_annual_cycle
AnnualCycle == [i \in Idx |-> SeasonalPhase(DateYear(i))]

\* the formula of the s-th branch of _simulate_climate_trend
ClimateSegment(s, year) ==
    CASE s = 1 -> Fix
      [] s = 2 -> Fix + 20 * (year - 1900)
      [] s = 3 -> 10200 + 50 * (year - 1950)
      [] s = 4 -> 11000 + 100 * (year - 1980)
      [] s = 5 -> 13000 + 150 * (year - 2000)

\* the branch _simulate_climate_trend takes for a year
ClimateBranch(year) ==
    IF year < 1900 THEN 1
    ELSE IF 1900 <= year /\ year < 1950 THEN 2
    ELSE IF 1950 <= year /\ year < 1980 THEN 3
    ELSE IF 1980 <= year /\ year < 2000 THEN 4
    ELSE 5

ClimateTrendAt(year) == ClimateSegment(ClimateBranch(year), year)

\* _simulate_climate_trend
ClimateTrend == [i \in Idx |-> ClimateTrendAt(DateYear(i))]

\* extreme_prob = min(0.8, base_prob + time_factor)
ExtremeProb(year) == Min(8000, 1000 + 10 * (year - 1850))

\* np.random.random() < extreme_prob, for the draw u / UGrid
ExtremeDrawn(u, year) == u * Fix < ExtremeProb(year) * UGrid

\* faulty variant: the intensity without its base of 1.0
ExtremeIntensityNoBase(year) == (5000 * (year - 1850)) \div 100

\* intensity = 1.0 + 0.5 * (year - 1850) / 100
ExtremeIntensity(year) == Fix + (5000 * (year - 1850)) \div 100

\* _simulate_extreme_events; draws[i] is the uniform draw of record i
ExtremeEvents(draws) ==
    [i \in Idx |->
        IF ExtremeDrawn(draws[i], DateYear(i))
        THEN ExtremeIntensity(DateYear(i))
        ELSE Fix]

\* the formula of the s-th branch of _simulate_human_impact
HumanSegment(s, year) ==
    CASE s = 1 -> Fix
      [] s = 2 -> Fix + 50 * (year - 1800)
      [] s = 3 -> 15000 + 100 * (year - 1900)
      [] s = 4 -> 20000 + 200 * (year - 1950)
      [] s = 5 -> 26000 + 300 * (year - 1980)
      [] s = 6 -> 32000 + 400 * (year - 2000)

\* the branch _simulate_human_impact takes for a year
HumanBranch(year) ==
    IF year < 1800 THEN 1
    ELSE IF 1800 <= year /\ year < 1900 THEN 2
    ELSE IF 1900 <= year /\ year < 1950 THEN 3
    ELSE IF 1950 <= year /\ year < 1980 THEN 4
    ELSE IF 1980 <= year /\ year < 2000 THEN 5
    ELSE 6

HumanImpactAt(year) == HumanSegment(HumanBranch(year), year)

\* _simulate_human_impact
HumanImpact == [i \in Idx |-> HumanImpactAt(DateYear(i))]

\* start_idx = max(0, i - 5)
WindowStart(i) == Max(0, i - 5)

\* faulty variant: a slice that reaches five records past i
WindowEndSymmetric(i, n) == Min(n, i + 6)

\* end_idx = min(len(base_cycle), i + 5); the slice excludes end_idx
WindowEnd(i, n) == Min(n, i + 5)

RECURSIVE SumRange(_, _, _)
\* the sum of f[lo], ..., f[hi - 1]
SumRange(f, lo, hi) == IF lo >= hi THEN 0 ELSE f[lo] + SumRange(f, lo + 1, hi)

\* np.mean(base_cycle[start_idx:end_idx])
WindowMean(f, lo, hi) == SumRange(f, lo, hi) \div (hi - lo)

\* start_idx and end_idx of every iteration of the smoothing loop
SmoothingWindows(n) == [i \in 0 .. (n - 1) |-> <<WindowStart(i), WindowEnd(i, n)>>]

\* _simulate_smoothed_data; the cycle is simulated anew, with its own noise
SmoothedData(cfg, noise) ==
    LET base_cycle == EarthCycle(cfg, noise)
        windows == SmoothingWindows(NumDates)
    IN  [i \in Idx |-> WindowMean(base_cycle, windows[i][1], windows[i][2])]

\* _simulate_monthly_variation
MonthlyVariation ==
    [i \in Idx |-> Fix + MulFix(1000, Sin2Pi(DateMonth(i) - 1, 12))]

\* _simulate_decadal_variation
DecadalVariation ==
    [i \in Idx |-> Fix + MulFix(500, Sin2Pi(DateYear(i) - start_year, 10))]

\* _simulate_environmental_index; the cycle is simulated anew
EnvironmentalIndex(cfg, noise) ==
    LET base_cycle == EarthCycle(cfg, noise)
        climate_trend == ClimateTrend
    IN  [i \in Idx |->
            MulDiv(base_cycle[i], 6, 10)
            + MulDiv(MulFix(cfg.base_value, climate_trend[i]), 4, 10)]

\* risk = min(100, human_impact * 20 + (extreme_events - 1) * 50)
Risk(human, extreme) == Min(100 * Fix, human * 20 + (extreme - Fix) * 50)

\* _simulate_risk_level; the extreme events are simulated anew
RiskLevel(draws) ==
    LET human_impact == HumanImpact
        extreme_events == ExtremeEvents(draws)
    IN  [i \in Idx |-> Risk(human_impact[i], extreme_events[i])]

\* np.random.normal(mu, sigma) for the draw of z standard deviations
Normal(mu, sigma, z) == mu + z * sigma

\* the projection of one record (lines 357-373)
Projection(cfg, year, current_value, trend_factor, z) ==
    IF year > 2020
    THEN LET uncertainty == 300 * (year - 2020)
         IN  IF cfg.trend = "croissante"
             THEN MulFix(MulFix(current_value, trend_factor),
                         Fix + Normal(200, uncertainty, z))
             ELSE IF cfg.trend = "decroissante"
             THEN MulFix(MulFix(current_value, trend_factor),
                         Fix - Normal(100, uncertainty, z))
             ELSE MulFix(current_value, Fix + Normal(0, uncertainty, z))
    ELSE current_value

\* _simulate_future_projection; the cycle is simulated anew, zs[i] is the
\* normal draw of the projection of record i
FutureProjection(cfg, noise, zs) ==
    LET base_cycle == EarthCycle(cfg, noise)
        climate_trend == ClimateTrend
    IN  [i \in Idx |->
            Projection(cfg, DateYear(i), base_cycle[i], climate_trend[i], zs[i])]

-----------------------------------------------------------------------------
(* _add_climate_events *)

\* the truth value Python gives an integer used as a condition
Truthy(x) == x # 0

\* faulty variant: the single-year branches compare the year
OverlayBranchByYear(year) ==
    IF 1815 <= year /\ year <= 1816 THEN "tambora"
    ELSE IF 1930 <= year /\ year <= 1939 THEN "dust_bowl"
    ELSE IF 1982 <= year /\ year <= 1983 THEN "el_nino_1982"
    ELSE IF 1997 <= year /\ year <= 1998 THEN "el_nino_1997"
    ELSE IF year = 2003 THEN "canicule"
    ELSE IF year = 2005 THEN "katrina"
    ELSE IF year = 2011 THEN "texas"
    ELSE IF year = 2019 THEN "australia"
    ELSE IF year = 2020 THEN "record"
    ELSE "none"

\* the branch of the if/elif chain that runs for a record of this year
OverlayBranch(year) ==
    IF 1815 <= year /\ year <= 1816 THEN "tambora"
    ELSE IF 1930 <= year /\ year <= 1939 THEN "dust_bowl"
    ELSE IF 1982 <= year /\ year <= 1983 THEN "el_nino_1982"
    ELSE IF 1997 <= year /\ year <= 1998 THEN "el_nino_1997"
    ELSE IF Truthy(2003) THEN "canicule"
    ELSE IF Truthy(2005) THEN "katrina"
    ELSE IF Truthy(2011) THEN "texas"
    ELSE IF Truthy(2019) THEN "australia"
    ELSE IF Truthy(2020) THEN "record"
    ELSE "none"

\* v *= pct / 100
Times(v, pct) == MulDiv(v, pct, 100)

\* lines 387-388
Tambora(row) ==
    [row EXCEPT !.Base_Value = Times(@, 90), !.Risk_Level = Times(@, 120)]

\* lines 392-394
DustBowl(dt, row) ==
    IF dt \in {"temperature", "precipitation"}
    THEN [row EXCEPT !.Base_Value = Times(@, 110), !.Risk_Level = Times(@, 130)]
    ELSE row

\* lines 398-399
ElNino1982(row) ==
    [row EXCEPT !.Base_Value = Times(@, 105), !.Extreme_Events = Times(@, 150)]

\* faulty variant: the 1997 branch with the factors of the 1982 branch
ElNino1997AsIn1982(row) ==
    [row EXCEPT !.Base_Value = Times(@, 105), !.Extreme_Events = Times(@, 150)]

\* lines 403-404
ElNino1997(row) ==
    [row EXCEPT !.Base_Value = Times(@, 108), !.Extreme_Events = Times(@, 180)]

\* faulty variant: the heat-wave risk without its clamp
HeatWaveRiskUnclamped(risk) == Times(risk, 140)

\* line 410: min(100, df.loc[i, 'Risk_Level'] * 1.4)
HeatWaveRisk(risk) == Min(100 * Fix, Times(risk, 140))

\* faulty variant: the heat wave also scales the projection
CaniculeWithProjection(dt, row) ==
    IF dt = "temperature"
    THEN [row EXCEPT !.Base_Value = Times(@, 110),
                     !.Risk_Level = Min(100 * Fix, Times(@, 140)),
                     !.Future_Projection = Times(@, 110)]
    ELSE row

\* lines 408-410
Canicule(dt, row) ==
    IF dt = "temperature"
    THEN [row EXCEPT !.Base_Value = Times(@, 110),
                     !.Risk_Level = HeatWaveRisk(@)]
    ELSE row

\* line 414
Katrina(row) == [row EXCEPT !.Extreme_Events = Times(@, 160)]

\* line 418
Texas(row) == [row EXCEPT !.Risk_Level = Times(@, 130)]

\* lines 422-424
Australia(dt, row) ==
    IF dt \in {"temperature", "air_quality"}
    THEN [row EXCEPT !.Base_Value = Times(@, 105), !.Risk_Level = Times(@, 120)]
    ELSE row

\* lines 428-429
Record2020(dt, row) ==
    IF dt = "temperature"
    THEN [row EXCEPT !.Base_Value = Times(@, 102)]
    ELSE row

\* the body of the loop: the row after the branch of its year has run
OverlayRow(dt, row) ==
    LET branch == OverlayBranch(row.Year)
    IN  CASE branch = "tambora" -> Tambora(row)
          [] branch = "dust_bowl" -> DustBowl(dt, row)
          [] branch = "el_nino_1982" -> ElNino1982(row)
          [] branch = "el_nino_1997" -> ElNino1997(row)
          [] branch = "canicule" -> Canicule(dt, row)
          [] branch = "katrina" -> Katrina(row)
          [] branch = "texas" -> Texas(row)
          [] branch = "australia" -> Australia(dt, row)
          [] branch = "record" -> Record2020(dt, row)
          [] OTHER -> row

\* pd.DataFrame(data): the frame, as the rows df.iterrows() yields
DataFrame(d) == [i \in Idx |-> [c \in DOMAIN d |-> d[c][i]]]

\* the frame after the loop over df.iterrows() has visited every row
OverlayFrame(dt, frame) == [i \in DOMAIN frame |-> OverlayRow(dt, frame[i])]

\* faulty variant: the rows taken from the last to the first
NextRowIndexBackward(seen) == NumDates - 1 - Len(seen)

\* the index df.iterrows() yields after the indices in seen: index order
NextRowIndex(seen) == Len(seen)

\* the indices df.iterrows() yields over the whole loop, in order
IterRows(frame) == [k \in 1 .. Cardinality(DOMAIN frame) |-> k - 1]

-----------------------------------------------------------------------------
(* main: the selection of the data type *)

DigitChars == <<"0", "1", "2", "3", "4", "5", "6", "7", "8", "9">>

IsDigit(c) == \E k \in 1 .. 10 : DigitChars[k] = c

DigitValue(c) == (CHOOSE k \in 1 .. 10 : DigitChars[k] = c) - 1

RECURSIVE StripLeft(_)
StripLeft(s) == IF s # <<>> /\ Head(s) = " " THEN StripLeft(Tail(s)) ELSE s

RECURSIVE StripRight(_)
StripRight(s) ==
    IF s # <<>> /\ s[Len(s)] = " " THEN StripRight(SubSeq(s, 1, Len(s) - 1)) ELSE s

RECURSIVE DigitsValue(_)
\* the number a sequence of digits denotes
DigitsValue(s) ==
    IF s = <<>> THEN 0
    ELSE 10 * DigitsValue(SubSeq(s, 1, Len(s) - 1)) + DigitValue(s[Len(s)])

\* int(text): <<value>>, or <<>> when int raises ValueError
ParseInt(text) ==
    LET t == StripRight(StripLeft(text))
        signed == t # <<>> /\ Head(t) \in {"+", "-"}
        digits == IF signed THEN Tail(t) ELSE t
    IN  IF digits = <<>> \/ \E k \in 1 .. Len(digits) : ~IsDigit(digits[k])
        THEN <<>>
        ELSE IF signed /\ Head(t) = "-"
        THEN << -DigitsValue(digits) >>
        ELSE << DigitsValue(digits) >>

\* faulty variant: the range check without its lower bound; a list index below
\* zero counts from the end of the list
SelectTypeNoLowerBound(parsed) ==
    IF parsed = <<>> THEN "temperature"
    ELSE IF parsed[1] > Len(earth_data_types) THEN "temperature"
    ELSE IF parsed[1] < 1 THEN earth_data_types[Len(earth_data_types) + parsed[1]]
    ELSE earth_data_types[parsed[1]]

\* lines 737-744: the type main selects for a parsed choice
SelectType(parsed) ==
    IF parsed = <<>> THEN "temperature"
    ELSE IF parsed[1] < 1 \/ parsed[1] > Len(earth_data_types) THEN "temperature"
    ELSE earth_data_types[parsed[1]]

\* the lines the user may type
InputLines ==
    {<<>>, <<"a">>, <<"3", ".", "5">>, <<"-", "1">>, <<"0">>,
     <<"9">>, <<"1", "0">>, <<" ", "2">>}
    \cup {<<DigitChars[k + 1]>> : k \in 1 .. 8}

-----------------------------------------------------------------------------
(* The state machine *)

Null == "null"

ColumnOrder ==
    <<"Year", "Base_Value", "Seasonal_Min", "Seasonal_Max", "Annual_Cycle",
      "Climate_Trend", "Extreme_Events", "Human_Impact", "Smoothed_Value",
      "Monthly_Variation", "Decadal_Variation", "Environmental_Index",
      "Risk_Level", "Future_Projection">>

\* the step that follows the assignment of a column in generate_earth_data
StepAfter(name) ==
    LET k == CHOOSE j \in 1 .. Len(ColumnOrder) : ColumnOrder[j] = name
    IN  IF k = Len(ColumnOrder) THEN "DataFrame" ELSE ColumnOrder[k + 1]

\* data[name] = col
Assign(d, name, col) ==
    [c \in DOMAIN d \cup {name} |-> IF c = name THEN col ELSE d[c]]

\* a sequence of draws that repeats one draw
Repeat(x) == [i \in Idx |-> x]

Init ==
    /\ pc = "start"
    /\ input_line = Null
    /\ choix = <<>>
    /\ selected_type = Null
    /\ data_type = Null
    /\ config = Null
    /\ data = <<>>
    /\ smooth_window = <<>>
    /\ df = <<>>
    /\ visited = <<>>

\* main, lines 737-744: read the choice and select the type
MainSelect ==
    /\ pc = "start"
    /\ \E line \in InputLines :
          /\ input_line' = line
          /\ choix' = ParseInt(line)
          /\ selected_type' = SelectType(ParseInt(line))
    /\ pc' = "selected"
    /\ UNCHANGED <<data_type, config, data, smooth_window, df, visited>>

\* main, line 747: analyzer = EarthDataAnalyzer(selected_type)
MainConstruct ==
    /\ pc = "selected"
    /\ data_type' = selected_type
    /\ config' = GetEarthConfig(selected_type)
    /\ pc' = "Year"
    /\ UNCHANGED <<input_line, choix, selected_type, data, smooth_window, df, visited>>

\* EarthDataAnalyzer(key) constructed by a caller other than main
Construct ==
    /\ pc = "start"
    /\ \E key \in DataTypeKeys :
          /\ data_type' = key
          /\ config' = GetEarthConfig(key)
    /\ pc' = "Year"
    /\ UNCHANGED <<input_line, choix, selected_type, data, smooth_window, df, visited>>

\* what the assignment of a column leaves alone
held == <<input_line, choix, selected_type, data_type, config, smooth_window, df,
          visited>>

\* line 109: data = {'Year': [date.year for date in dates]}
GenYear ==
    /\ pc = "Year"
    /\ data' = Assign(data, "Year", [i \in Idx |-> DateYear(i)])
    /\ pc' = StepAfter("Year")
    /\ UNCHANGED held

\* line 112
GenBaseValue ==
    /\ pc = "Base_Value"
    /\ \E z \in NormalDraws :
             data' = Assign(data, "Base_Value",
                            EarthCycle(config, Repeat(z * NoiseSigma(config))))
    /\ pc' = StepAfter("Base_Value")
    /\ UNCHANGED held

\* line 113
GenSeasonalMin ==
    /\ pc = "Seasonal_Min"
    /\ data' = Assign(data, "Seasonal_Min", SeasonalMinima(data_type))
    /\ pc' = StepAfter("Seasonal_Min")
    /\ UNCHANGED held

\* line 114
GenSeasonalMax ==
    /\ pc = "Seasonal_Max"
    /\ data' = Assign(data, "Seasonal_Max", SeasonalMaxima(data_type))
    /\ pc' = StepAfter("Seasonal_Max")
    /\ UNCHANGED held

\* line 115
GenAnnualCycle ==
    /\ pc = "Annual_Cycle"
    /\ data' = Assign(data, "Annual_Cycle", AnnualCycle)
    /\ pc' = StepAfter("Annual_Cycle")
    /\ UNCHANGED held

\* line 118
GenClimateTrend ==
    /\ pc = "Climate_Trend"
    /\ data' = Assign(data, "Climate_Trend", ClimateTrend)
    /\ pc' = StepAfter("Climate_Trend")
    /\ UNCHANGED held

\* line 119
GenExtremeEvents ==
    /\ pc = "Extreme_Events"
    /\ \E u \in UniformDraws :
             data' = Assign(data, "Extreme_Events",
                            ExtremeEvents(Repeat(u)))
    /\ pc' = StepAfter("Extreme_Events")
    /\ UNCHANGED held

\* line 120
GenHumanImpact ==
    /\ pc = "Human_Impact"
    /\ data' = Assign(data, "Human_Impact", HumanImpact)
    /\ pc' = StepAfter("Human_Impact")
    /\ UNCHANGED held

\* line 123
GenSmoothedValue ==
    /\ pc = "Smoothed_Value"
    /\ \E z \in NormalDraws :
             data' = Assign(data, "Smoothed_Value",
                            SmoothedData(config, Repeat(z * NoiseSigma(config))))
    /\ smooth_window' = SmoothingWindows(NumDates)
    /\ pc' = StepAfter("Smoothed_Value")
    /\ UNCHANGED <<input_line, choix, selected_type, data_type, config, df, visited>>

\* line 124
GenMonthlyVariation ==
    /\ pc = "Monthly_Variation"
    /\ data' = Assign(data, "Monthly_Variation", MonthlyVariation)
    /\ pc' = StepAfter("Monthly_Variation")
    /\ UNCHANGED held

\* line 125
GenDecadalVariation ==
    /\ pc = "Decadal_Variation"
    /\ data' = Assign(data, "Decadal_Variation", DecadalVariation)
    /\ pc' = StepAfter("Decadal_Variation")
    /\ UNCHANGED held

\* line 128
GenEnvironmentalIndex ==
    /\ pc = "Environmental_Index"
    /\ \E z \in NormalDraws :
             data' = Assign(data, "Environmental_Index",
                            EnvironmentalIndex(config, Repeat(z * NoiseSigma(config))))
    /\ pc' = StepAfter("Environmental_Index")
    /\ UNCHANGED held

\* line 129
GenRiskLevel ==
    /\ pc = "Risk_Level"
    /\ \E u \in UniformDraws :
             data' = Assign(data, "Risk_Level",
                            RiskLevel(Repeat(u)))
    /\ pc' = StepAfter("Risk_Level")
    /\ UNCHANGED held

\* line 130
GenFutureProjection ==
    /\ pc = "Future_Projection"
    /\ \E z \in NormalDraws, zp \in NormalDraws :
             data' = Assign(data, "Future_Projection",
                            FutureProjection(config, Repeat(z * NoiseSigma(config)), Repeat(zp)))
    /\ pc' = StepAfter("Future_Projection")
    /\ UNCHANGED held

\* df = pd.DataFrame(data): the frame holds copies of the columns
MakeDataFrame ==
    /\ pc = "DataFrame"
    /\ df' = DataFrame(data)
    /\ pc' = "add_climate_events"
    /\ UNCHANGED <<input_line, choix, selected_type, data_type, config, data,
                   smooth_window, visited>>

\* self._add_climate_events(df), then return df
AddClimateEvents ==
    /\ pc = "add_climate_events"
    /\ visited = <<>>
    /\ df' = OverlayFrame(data_type, df)
    /\ visited' = IterRows(df)
    /\ pc' = "return"
    /\ UNCHANGED <<input_line, choix, selected_type, data_type, config, data,
                   smooth_window>>

\* the assignments of generate_earth_data, up to the frame
Columns ==
    \/ GenYear
    \/ GenBaseValue
    \/ GenSeasonalMin
    \/ GenSeasonalMax
    \/ GenAnnualCycle
    \/ GenClimateTrend
    \/ GenExtremeEvents
    \/ GenHumanImpact
    \/ GenSmoothedValue
    \/ GenMonthlyVariation
    \/ GenDecadalVariation
    \/ GenEnvironmentalIndex
    \/ GenRiskLevel
    \/ GenFutureProjection
    \/ MakeDataFrame

\* the steps of generate_earth_data
Generate == Columns \/ AddClimateEvents

\* an analyzer constructed with any key, then generate_earth_data
Next == Construct \/ Generate

Spec == Init /\ [][Next]_vars

\* the run of main
NextMain == MainSelect \/ MainConstruct \/ Generate

SpecMain == Init /\ [][NextMain]_vars

-----------------------------------------------------------------------------
(* The overlay loop taken one iteration at a time *)

\* one iteration of the loop of _add_climate_events: the next row
\* df.iterrows() yields is rewritten in place
VisitRow ==
    /\ pc = "add_climate_events"
    /\ Len(visited) < NumDates
    /\ LET i == NextRowIndex(visited)
       IN  /\ df' = [df EXCEPT ![i] = OverlayRow(data_type, df[i])]
           /\ visited' = Append(visited, i)
    /\ UNCHANGED <<pc, input_line, choix, selected_type, data_type, config, data,
                   smooth_window>>

\* the loop is exhausted: _add_climate_events returns, then return df
ReturnFrame ==
    /\ pc = "add_climate_events"
    /\ Len(visited) = NumDates
    /\ pc' = "return"
    /\ UNCHANGED <<input_line, choix, selected_type, data_type, config, data,
                   smooth_window, df, visited>>

\* the columns so far are those the generators give when every normal draw
\* is 0 and the uniform draws of the risk level are 0
QuietDraws ==
    LET zero == Repeat(0)
    IN  /\ "Base_Value" \in DOMAIN data
              => data["Base_Value"] = EarthCycle(config, zero)
        /\ "Smoothed_Value" \in DOMAIN data
              => data["Smoothed_Value"] = SmoothedData(config, zero)
        /\ "Environmental_Index" \in DOMAIN data
              => data["Environmental_Index"] = EnvironmentalIndex(config, zero)
        /\ "Risk_Level" \in DOMAIN data
              => data["Risk_Level"] = RiskLevel(zero)
        /\ "Future_Projection" \in DOMAIN data
              => data["Future_Projection"] = FutureProjection(config, zero, zero)

\* the runs of generate_earth_data under those draws, row by row
NextRows ==
    \/ Construct
    \/ (Columns /\ QuietDraws')
    \/ VisitRow
    \/ ReturnFrame

SpecRows == Init /\ [][NextRows]_vars

-----------------------------------------------------------------------------
(* Properties *)

Returned == pc = "return"

Has(col) == col \in DOMAIN data

\* C1: after generate_earth_data has finished, overlay included, Risk_Level
\* of every record lies in [0, 100], for every data type and every draw
RiskLevelInRange ==
    Returned =>
        \A i \in DOMAIN df :
            0 <= df[i].Risk_Level /\ df[i].Risk_Level <= 100 * Fix

\* a temperature record whose risk the overlay raised up to the clamp
RiskClampedByOverlay ==
    /\ Returned
    /\ data_type = "temperature"
    /\ \E i \in DOMAIN df :
          /\ data["Risk_Level"][i] < 100 * Fix
          /\ Times(data["Risk_Level"][i], 140) > 100 * Fix
          /\ df[i].Risk_Level = 100 * Fix

\* C2: at every breakpoint year the formula of the segment below the
\* boundary gives the value the curve takes there, for both curves
TrendCurvesContinuous ==
    Has("Human_Impact") =>
        /\ \A b \in {1900, 1950, 1980, 2000} :
              /\ data["Climate_Trend"][b - 1850]
                    = ClimateSegment(ClimateBranch(b - 1), b)
              /\ data["Human_Impact"][b - 1850]
                    = HumanSegment(HumanBranch(b - 1), b)
        /\ HumanImpactAt(1800) = HumanSegment(HumanBranch(1799), 1800)

\* C3: Climate_Trend and Human_Impact do not decrease from one year to the
\* next, over 1850..2025
TrendCurvesMonotone ==
    Has("Human_Impact") =>
        \A i \in 0 .. 174 :
            /\ data["Climate_Trend"][i] <= data["Climate_Trend"][i + 1]
            /\ data["Human_Impact"][i] <= data["Human_Impact"][i + 1]

\* C4: the Year column of the frame is exactly 1850, 1851, ..., 2025, before
\* and after the overlay pass: 176 records, strictly increasing, no gaps
YearsExact ==
    pc \in {"add_climate_events", "return"} =>
        /\ DOMAIN df = 0 .. 175
        /\ Cardinality(DOMAIN df) = 176
        /\ df[0].Year = 1850
        /\ df[175].Year = 2025
        /\ \A i \in DOMAIN df : df[i].Year = data["Year"][i]
        /\ \A i \in DOMAIN df : i > 0 => df[i].Year = df[i - 1].Year + 1

\* the frame returned, with its first and last year
YearsReturned ==
    /\ Returned
    /\ df[0].Year = 1850
    /\ df[175].Year = 2025

\* C5: for every record of a year up to 2020, Future_Projection equals the
\* Base_Value of the record before the overlay pass
ProjectionEqualsBaseValue ==
    Has("Future_Projection") =>
        \A i \in Idx :
            data["Year"][i] <= 2020
                => data["Future_Projection"][i] = data["Base_Value"][i]

\* the indices the window claim is checked at
WindowCheckpoints == {0, 4, 5, 176 - 6, 176 - 1}

\* C6, as claimed: the window of record i holds the records i-5 .. i+5,
\* clipped to the sequence: min(11, n) values at interior indices
SmoothingWindowEleven ==
    Has("Smoothed_Value") =>
        \A i \in WindowCheckpoints :
            /\ smooth_window[i][1] = Max(0, i - 5)
            /\ smooth_window[i][2] - 1 = Min(176 - 1, i + 5)
            /\ (i \in {5, 176 - 6}
                   => smooth_window[i][2] - smooth_window[i][1] = Min(11, 176))

\* C6, amended: the window of record i holds the records i-5 .. i+4, clipped
\* to the sequence without wrapping: 10 values at the interior indices
\* 5 .. n-5, i+5 values at the first 5 indices, n-i+5 at the last 4
SmoothingWindowTen ==
    Has("Smoothed_Value") =>
        /\ DOMAIN smooth_window = 0 .. 175
        /\ \A i \in DOMAIN smooth_window :
              LET lo == smooth_window[i][1]
                  hi == smooth_window[i][2]
              IN  /\ lo = Max(0, i - 5)
                  /\ hi - 1 = Min(176 - 1, i + 4)
                  /\ 0 <= lo /\ lo <= i /\ i < hi /\ hi <= 176
                  /\ (5 <= i /\ i <= 176 - 5 => hi - lo = 10)
                  /\ (i < 5 => hi - lo = i + 5)
                  /\ (i > 176 - 5 => hi - lo = 176 - i + 5)
        /\ LET size == [i \in DOMAIN smooth_window |->
                            smooth_window[i][2] - smooth_window[i][1]]
           IN  <<size[0], size[4], size[5], size[176 - 6], size[176 - 1]>>
                  = <<5, 9, 10, 10, 6>>

\* the windows of an interior record and of the last record
SmoothingWindowsTaken ==
    /\ Has("Smoothed_Value")
    /\ smooth_window[5] = <<0, 10>>
    /\ smooth_window[175] = <<170, 176>>

\* C7: each supported key resolves to its own profile, with amplitude >= 0
\* and cycle_years > 0; any other key resolves to the default profile (base
\* 100, cycle 1, amplitude 20, a trend that is neither increasing nor
\* decreasing)
ProfileLookupTotal ==
    pc # "start" =>
        /\ \E k \in DOMAIN configs : config = configs[k]
        /\ data_type \in SupportedKeys =>
              /\ config = configs[data_type]
              /\ config.amplitude >= 0
              /\ config.cycle_years > 0
              /\ \A k \in SupportedKeys \ {data_type} :
                    config.description # configs[k].description
        /\ data_type \notin SupportedKeys =>
              /\ config.base_value = 100 * Fix
              /\ config.cycle_years = 1
              /\ config.amplitude = 20 * Fix
              /\ config.trend \notin {"croissante", "decroissante"}
              /\ \A y \in 1850 .. 2025 : TrendFactor(config, y) = Fix

\* an analyzer constructed with a key the table does not hold
UnknownKeyResolved ==
    /\ pc # "start"
    /\ data_type = "ozone"
    /\ config.base_value = 100 * Fix

\* the lines of InputLines that int() rejects
NonNumericLines == {<<>>, <<"a">>, <<"3", ".", "5">>}

\* C8: in main, a line that is not a number, or a number outside 1..8,
\* selects "temperature" and the run goes on to generation; a number k in
\* 1..8 selects the k-th key of the list
SelectionFallsBack ==
    pc # "start" =>
        /\ choix = <<>> <=> input_line \in NonNumericLines
        /\ (choix = <<>> \/ choix[1] < 1 \/ choix[1] > 8)
              => selected_type = "temperature"
        /\ (choix # <<>> /\ choix[1] >= 1 /\ choix[1] <= 8)
              => selected_type = earth_data_types[choix[1]]
        /\ pc = "selected" => ENABLED MainConstruct
        /\ pc # "selected" =>
              /\ data_type = selected_type
              /\ config = configs[selected_type]

\* a run of main that fell back from a number below the range and returned
FallbackRunReturned ==
    /\ Returned
    /\ choix = <<0>>
    /\ data_type = "temperature"

\* C9: the overlay pass multiplies Extreme_Events of the records of 1997 and
\* 1998 by 1.8 and their Base_Value by 1.08, once, and changes nothing else
\* in those records
ElNino1997Applied ==
    Returned =>
        \A i \in DOMAIN df :
            df[i].Year \in {1997, 1998} =>
                /\ 10 * df[i].Extreme_Events = 18 * data["Extreme_Events"][i]
                /\ 100 * df[i].Base_Value <= 108 * data["Base_Value"][i]
                /\ 108 * data["Base_Value"][i] < 100 * df[i].Base_Value + 100
                /\ \A c \in DOMAIN df[i] \ {"Extreme_Events", "Base_Value"} :
                      df[i][c] = data[c][i]

\* the record of 1997 with an extreme event drawn, after the pass
ElNino1997OnEvent ==
    /\ Returned
    /\ \E i \in DOMAIN df :
          /\ df[i].Year = 1997
          /\ data["Extreme_Events"][i] > Fix
          /\ data["Base_Value"][i] > 0
          /\ df[i].Extreme_Events > data["Extreme_Events"][i]

\* C10: Extreme_Events of every record is at least 1.0, before and after the
\* overlay pass, and is exactly 1.0 for 1850 whichever way the draw falls
ExtremeEventsAtLeastOne ==
    /\ Has("Extreme_Events") =>
          \A i \in Idx :
              /\ data["Extreme_Events"][i] >= Fix
              /\ data["Year"][i] = 1850 => data["Extreme_Events"][i] = Fix
    /\ Returned =>
          \A i \in DOMAIN df :
              /\ df[i].Extreme_Events >= Fix
              /\ df[i].Year = 1850 => df[i].Extreme_Events = Fix

\* every draw fell below the probability (1851 has an event, so 1850 drew
\* one too) and the overlay has multiplied the intensity of a record
ExtremeEventsDrawnAndScaled ==
    /\ Returned
    /\ data["Extreme_Events"][1] > Fix
    /\ data["Extreme_Events"][0] = Fix
    /\ \E i \in DOMAIN df : df[i].Extreme_Events > data["Extreme_Events"][i]

\* the record of index i as the generators left it, before the overlay pass
PreRow(i) == [c \in DOMAIN data |-> data[c][i]]

\* C12: as the code is written, one branch body at most runs per record, the
\* 2005, 2011, 2019 and 2020 branches run for no year of 1850..2025, and
\* every year from 2003 on is caught by the '2003' branch
OverlayBranchesAsWritten ==
    Returned =>
        \A i \in DOMAIN df :
            LET pre == PreRow(i)
                year == pre.Year
                branch == OverlayBranch(year)
            IN  /\ branch \notin {"katrina", "texas", "australia", "record"}
                /\ year >= 2003 => branch = "canicule"
                /\ year >= 2003 => df[i] = Canicule(data_type, pre)
                /\ df[i] \in {Tambora(pre), DustBowl(data_type, pre),
                              ElNino1982(pre), ElNino1997(pre),
                              Canicule(data_type, pre)}
                /\ year = 2005 => df[i].Extreme_Events = pre.Extreme_Events
                /\ (year = 2011 /\ data_type # "temperature")
                      => df[i].Risk_Level = pre.Risk_Level
                /\ (year = 2019 /\ data_type = "air_quality") => df[i] = pre
                /\ (year = 2020 /\ data_type = "temperature")
                      => df[i].Base_Value = Times(pre.Base_Value, 110)

\* the records of 2005 (an extreme event drawn) and of 2020 of a temperature
\* run, after the pass
LateYearsCaughtBy2003 ==
    /\ Returned
    /\ data_type = "temperature"
    /\ \E i \in DOMAIN df :
          /\ df[i].Year = 2005
          /\ df[i].Extreme_Events > Fix
          /\ df[i].Extreme_Events = data["Extreme_Events"][i]
    /\ \E i \in DOMAIN df :
          /\ df[i].Year = 2020
          /\ df[i].Base_Value # Times(data["Base_Value"][i], 102)
          /\ df[i].Base_Value = Times(data["Base_Value"][i], 110)

\* the heat-wave adjustment has been applied to the record of index i
HeatWaveApplied(i) ==
    /\ df[i].Base_Value = Times(data["Base_Value"][i], 110)
    /\ df[i].Risk_Level = Min(100 * Fix, Times(data["Risk_Level"][i], 140))

\* C13: for the temperature variable the heat-wave adjustment is applied to
\* the record of 2003 and to the record of no other year
HeatWaveOnly2003 ==
    (Returned /\ data_type = "temperature") =>
        \A i \in DOMAIN df : HeatWaveApplied(i) <=> df[i].Year = 2003

\* C14: before the overlay pass, Risk_Level of every record is
\* min(100, Human_Impact*20 + (Extreme_Events - 1)*50) of the Human_Impact
\* and Extreme_Events fields of that record
RiskFromRecordFields ==
    Has("Risk_Level") =>
        \A i \in Idx :
            data["Risk_Level"][i]
                = Min(100 * Fix,
                      data["Human_Impact"][i] * 20
                      + (data["Extreme_Events"][i] - Fix) * 50)

AllColumns == {ColumnOrder[k] : k \in 1 .. Len(ColumnOrder)}

\* C15: the overlay starts only after the 14 columns hold 176 values each,
\* visits the records in ascending year order, each once, and the frame is
\* returned only after the last record has been visited
OverlayLast ==
    /\ visited # <<>> => pc \in {"add_climate_events", "return"}
    /\ pc \in {"add_climate_events", "return"} =>
          /\ DOMAIN data = AllColumns
          /\ Cardinality(AllColumns) = 14
          /\ \A c \in AllColumns : DOMAIN data[c] = 0 .. 175
          /\ \A k \in 1 .. Len(visited) :
                /\ visited[k] = k - 1
                /\ df[visited[k]].Year = 1850 + (k - 1)
                /\ df[visited[k]] = OverlayRow(data_type, PreRow(visited[k]))
          /\ \A i \in DOMAIN df :
                (\A k \in 1 .. Len(visited) : visited[k] # i) => df[i] = PreRow(i)
    /\ Returned => Len(visited) = 176

\* the loop between the records of 1997 and 1998
OverlayMidLoop ==
    /\ pc = "add_climate_events"
    /\ Len(visited) = 148
    /\ df[147].Year = 1997
    /\ df[147] # PreRow(147)
    /\ df[148] = PreRow(148)

\* the columns the overlay is not to touch
KeptColumns ==
    {"Year", "Seasonal_Min", "Seasonal_Max", "Annual_Cycle", "Climate_Trend",
     "Human_Impact", "Smoothed_Value", "Monthly_Variation",
     "Decadal_Variation", "Environmental_Index", "Future_Projection"}

\* C16: the overlay pass leaves the eleven fields other than Base_Value,
\* Risk_Level and Extreme_Events of every record as they were before it
OverlayKeepsOtherFields ==
    [][pc = "add_climate_events" =>
          /\ DOMAIN df' = DOMAIN df
          /\ \A i \in DOMAIN df :
                /\ DOMAIN df'[i] = DOMAIN df[i]
                /\ \A c \in KeptColumns : df'[i][c] = df[i][c]]_vars

\* a temperature run whose record of 2003 the pass has rewritten
OverlayRewroteRecord ==
    /\ Returned
    /\ data_type = "temperature"
    /\ \E i \in DOMAIN df :
          /\ df[i].Year = 2003
          /\ df[i].Base_Value # data["Base_Value"][i]
          /\ df[i].Risk_Level # data["Risk_Level"][i]
          /\ df[i].Future_Projection = data["Future_Projection"][i]
          /\ df[i].Future_Projection # 0

\* the seasonal envelope of a record with these three fields
EnvelopeConstant(dt, cycle, lo, hi) ==
    /\ cycle = 0
    /\ lo = (IF dt = "temperature" THEN 7000 ELSE 8000)
    /\ hi = (IF dt = "temperature" THEN 8000 ELSE Fix)
    /\ lo <= hi

\* C17: Annual_Cycle is 0 in every record, Seasonal_Min is 0.7 and
\* Seasonal_Max 0.8 for temperature, 0.8 and 1.0 for every other type, and
\* Seasonal_Min <= Seasonal_Max
SeasonalEnvelopeConstant ==
    /\ Has("Annual_Cycle") =>
          \A i \in Idx :
              EnvelopeConstant(data_type, data["Annual_Cycle"][i],
                               data["Seasonal_Min"][i], data["Seasonal_Max"][i])
    /\ Returned =>
          /\ Cardinality(DOMAIN df) = 176
          /\ \A i \in DOMAIN df :
                EnvelopeConstant(data_type, df[i].Annual_Cycle,
                                 df[i].Seasonal_Min, df[i].Seasonal_Max)

\* the last record of a temperature run and of a run of another type
EnvelopeReturned ==
    /\ Returned
    /\ \/ /\ data_type = "temperature"
          /\ df[175].Seasonal_Min = 7000
          /\ df[175].Seasonal_Max = 8000
       \/ /\ data_type = "glaciers"
          /\ df[175].Seasonal_Min = 8000
          /\ df[175].Seasonal_Max = Fix

====
